---- MODULE Spec2Model ----
(***************************************************************************)
(* PipeGen (deeppavlov/pipeline_manager/pipegen.py): the generator of      *)
(* pipeline configurations.  Python dicts are objects with identity: the   *)
(* model keeps them in heaps (objs for components, trains for train        *)
(* blocks) and passes references, so that aliasing and in-place mutation   *)
(* are visible.                                                            *)
(***************************************************************************)
EXTENDS Integers, Sequences, FiniteSets, TLC

\* ---------------------------------------------------------------- bounds
MaxStages == 2
MaxCands == 2
MaxReaders == 2
MaxBatch == 2
MaxSampleNum == 2
MaxConfigs == 4
MaxCalls == 2

\* ------------------------------------------------------- values and paths
\* None as a stage candidate (a reference that points to no object)
NULL == 0

\* a path is the sequence of its segments, the strings between the '/'
Seg(name) == name
\* 'pipe_{}'.format(k)
PipeSeg(k) == "pipe_" \o ToString(k)
\* path.split('/')[-1]
LastSeg(path) == path[Len(path)]
\* os.path.join(root, *rest)
Join(root, rest) == root \o rest
\* expand_path(save_path): the absolute form of the save root
ExpandPath(path) == <<Seg("/abs")>> \o path

NoPath == <<>>
NoKey == "<absent>"

\* values of a component parameter: absent key, literal, or a dict {k: vals}
Absent == [t |-> "absent", k |-> "", vals |-> <<>>, v |-> 0]
Lit(x) == [t |-> "lit", k |-> "", vals |-> <<>>, v |-> x]
Dict(key, values) == [t |-> "dict", k |-> key, vals |-> values, v |-> 0]

\* component.items() order of the parameters that may hold a dict
ParamKeys == <<"lr", "dim">>

\* item_key.startswith('random_')
StartsWithRandom(key) == key \in {"random_range", "random_choice"}

Component(name, main, sp, lp, lr, dim) ==
    [component_name |-> name, main |-> main, save_path |-> sp, load_path |-> lp,
     lr |-> lr, dim |-> dim]

\* the value shown for a None entry of a component list
NoneComp == Component("<None>", FALSE, NoPath, NoPath, Absent, Absent)

Tok == Component("tok", FALSE, <<Seg("old"), Seg("vocab.dict")>>,
                 <<Seg("old"), Seg("vocab.dict")>>, Absent, Absent)
Clf == Component("clf", TRUE, <<Seg("old"), Seg("model.bin")>>,
                 <<Seg("old"), Seg("model.bin")>>, Lit(3), Dict("range", <<1>>))
Net == Component("net", TRUE, <<Seg("old"), Seg("net.bin")>>, NoPath,
                 Dict("grid_search", <<1, 2>>), Dict("random_range", <<5, 6, 7>>))
Bad == Component(NoKey, FALSE, NoPath, NoPath, Lit(1), Absent)

\* candidate components a template is built from (NoneComp stands for null)
Catalogue == <<Tok, NoneComp, Clf, Net, Bad>>

\* train['batch_size']: no such key, a number or a list of numbers
NoBatch == [present |-> FALSE, is_list |-> FALSE, v |-> 0, vals |-> <<>>]
Scalar(x) == [present |-> TRUE, is_list |-> FALSE, v |-> x, vals |-> <<>>]
ListOf(values) == [present |-> TRUE, is_list |-> TRUE, v |-> 0, vals |-> values]
BatchValues == <<16, 32, 64, 128>>

ReaderPaths == <<<<Seg("data"), Seg("ds1")>>, <<Seg("data"), Seg("ds2")>>,
                 <<Seg("data"), Seg("ds3")>>, <<Seg("data"), Seg("ds4")>>>>

SaveRoot == <<Seg("ckpt")>>

\* ------------------------------------------------------------- helpers
Range(f) == {f[i] : i \in DOMAIN f}

RECURSIVE Prod(_)
Prod(ns) == IF Len(ns) = 0 THEN 1 ELSE Head(ns) * Prod(Tail(ns))

RECURSIVE Pow(_, _)
Pow(b, e) == IF e = 0 THEN 1 ELSE b * Pow(b, e - 1)

RECURSIVE Flatten(_)
Flatten(ss) == IF Len(ss) = 0 THEN <<>> ELSE Head(ss) \o Flatten(Tail(ss))

\* itertools.product(*axes): tuples in lexicographic order, last axis fastest
RECURSIVE Product(_)
Product(axes) ==
    IF Len(axes) = 0 THEN << <<>> >>
    ELSE LET rest == Product(Tail(axes))
             first == Head(axes)
         IN Flatten([i \in 1..Len(first) |->
                        [j \in 1..Len(rest) |-> <<first[i]>> \o rest[j]]])

\* the component a reference points to
Val(h, id) == IF id = NULL THEN NoneComp ELSE h[id]
Vals(h, ids) == [i \in 1..Len(ids) |-> Val(h, ids[i])]

\* ------------------------------------------------------------ the state
VARIABLES
    config,        \* the template passed to PipeGen(...)
    mode,          \* argument mode
    sample_num,    \* argument sample_num (self.N)
    test_mode,     \* argument test_mode
    pc,            \* position of the program
    err,           \* the exception construction ended with, if any
    objs,          \* heap of component dicts
    trains,        \* heap of train dicts; trains[1] is self.train_config
    structure,     \* self.structure: stages of references into objs
    chainer_pipe,  \* self.chainer['pipe']
    pipes,         \* self.pipes
    enumerator,    \* self.enumerator: raw variants and the read position
    gen,           \* the running pipeline_gen frame
    length,        \* self.length
    produced,      \* configurations yielded by the running generator
    len_run,       \* configurations the throwaway run of get_len yielded
    returned       \* per __call__ so far: how many configurations
                   \* self.generator had yielded when it was returned

vars == <<config, mode, sample_num, test_mode, pc, err, objs, trains, structure,
          chainer_pipe, pipes, enumerator, gen, length, produced, len_run, returned>>

NoErr == [kind |-> "", what |-> "", stage |-> 0, cand |-> 0]
ConfigError(what, i, j) == [kind |-> "ConfigError", what |-> what, stage |-> i, cand |-> j]
AttributeError == [kind |-> "AttributeError", what |-> "NoneType.get", stage |-> 0, cand |-> 0]

\* a pipeline_gen frame that has not run yet: p, the raw variant at hand,
\* the expansion of that variant and how much of it was yielded
NoGen == [p |-> 0, variant |-> <<>>, inner |-> <<>>, ei |-> 0]
NoEnum == [items |-> <<>>, pos |-> 0]

\* ---------------------------------------------------------- the inputs
IncSeqs(n, m) == {s \in [1..n -> 1..m] : \A i \in 1..(n - 1) : s[i] < s[i + 1]}

StageOptions ==
    {[i \in 1..Len(s) |-> Catalogue[s[i]]] :
        s \in UNION {IncSeqs(n, Len(Catalogue)) : n \in 1..MaxCands}}

Structures == UNION {[1..n -> StageOptions] : n \in 0..MaxStages}

\* one reader is given as a dict, several as a list
ReaderOptions ==
    {[is_list |-> r > 1, paths |-> SubSeq(ReaderPaths, 1, r)] : r \in 1..MaxReaders}

BatchOptions ==
    {NoBatch, Scalar(BatchValues[1])}
        \cup {ListOf(SubSeq(BatchValues, 1, t)) : t \in 1..MaxBatch}

TrainAxis(bs) == IF bs.is_list THEN Len(bs.vals) ELSE 1

\* number of raw variants of a template
RawCount(c) ==
    Len(c.dataset_reader.paths) * TrainAxis(c.batch_size)
        * Prod([i \in 1..Len(c.pipe) |-> Len(c.pipe[i])])

\* ------------------------------------------------------- construction
IsNone(c) == c = NoneComp

\* deepcopy(config): the non-null candidates, in template order
TemplateObjs(pipe) ==
    Flatten([i \in 1..Len(pipe) |->
        SelectSeq(pipe[i], LAMBDA c : ~IsNone(c))])

\* the reference stored at stage i, candidate j of self.structure
RefAt(pipe, i, j) ==
    IF IsNone(pipe[i][j]) THEN NULL
    ELSE Cardinality({q \in (1..Len(pipe)) \X (1..MaxCands + 1) :
            /\ q[2] <= Len(pipe[q[1]])
            /\ ~IsNone(pipe[q[1]][q[2]])
            /\ (q[1] < i \/ (q[1] = i /\ q[2] <= j))})

TemplateRefs(pipe) ==
    [i \in 1..Len(pipe) |-> [j \in 1..Len(pipe[i]) |-> RefAt(pipe, i, j)]]

\* _check_component_name: positions (0-based i, j) of candidates without the key
Unnamed(h, struct) ==
    {q \in (0..Len(struct) - 1) \X (0..MaxCands) :
        /\ q[2] < Len(struct[q[1] + 1])
        /\ struct[q[1] + 1][q[2] + 1] # NULL
        /\ h[struct[q[1] + 1][q[2] + 1]].component_name = NoKey}

FirstUnnamed(h, struct) ==
    CHOOSE q \in Unnamed(h, struct) :
        \A r \in Unnamed(h, struct) : q[1] < r[1] \/ (q[1] = r[1] /\ q[2] <= r[2])

\* the positions reported as they are enumerated, 0-based
NameErrorZeroBased(i, j) == ConfigError("component_name", i, j)

NameErrorOf(i, j) == ConfigError("component_name", i + 1, j + 1)

\* the exception lines 56-84 raise, NoErr when they pass
InitError(cfg, md, h, struct) ==
    IF ~cfg.has_chainer THEN ConfigError("chainer", 0, 0)
    ELSE IF ~cfg.iterator_is_dict THEN ConfigError("dataset_iterator", 0, 0)
    ELSE IF md \notin {"random", "grid"} THEN ConfigError("mode", 0, 0)
    ELSE IF Unnamed(h, struct) # {}
         THEN NameErrorOf(FirstUnnamed(h, struct)[1], FirstUnnamed(h, struct)[2])
    ELSE NoErr

\* the loop over a list-valued batch_size: every value is written to the one
\* copy bs_conf, and that copy is appended each time
RECURSIVE BatchLoop(_, _, _, _, _)
BatchLoop(tr, bs_conf, values, k, bss) ==
    IF k > Len(values) THEN [trains |-> tr, bss |-> bss]
    ELSE BatchLoop([tr EXCEPT ![bs_conf].batch_size = Scalar(values[k])],
                   bs_conf, values, k + 1, Append(bss, bs_conf))

\* pipeline_enumeration that takes the train block as it is, list or not
PipelineEnumerationOneBatch(cfg, tr, pp, struct) ==
    LET drs == IF cfg.dataset_reader.is_list
               THEN [r \in 1..Len(cfg.dataset_reader.paths) |-> r]
               ELSE <<1>>
        copied == Append(tr, tr[1])
        newpipes == pp \o <<drs, <<1>>>> \o struct
    IN [trains |-> copied, pipes |-> newpipes,
        enumerator |-> [items |-> Product(newpipes), pos |-> 0]]

\* pipeline_enumeration: the axes are appended to self.pipes
PipelineEnumeration(cfg, tr, pp, struct) ==
    LET drs == IF cfg.dataset_reader.is_list
               THEN [r \in 1..Len(cfg.dataset_reader.paths) |-> r]
               ELSE <<1>>
        copied == Append(tr, tr[1])
        bs_conf == Len(copied)
        looped == IF tr[1].batch_size.present
                  THEN IF tr[1].batch_size.is_list
                       THEN BatchLoop(copied, bs_conf, tr[1].batch_size.vals, 1, <<>>)
                       ELSE [trains |-> copied, bss |-> <<1>>]
                  ELSE [trains |-> tr, bss |-> <<1>>]
        newpipes == pp \o <<drs, looped.bss>> \o struct
    IN [trains |-> looped.trains, pipes |-> newpipes,
        enumerator |-> [items |-> Product(newpipes), pos |-> 0]]

TrainConfig(cfg) == [batch_size |-> cfg.batch_size, epochs |-> 10]

PipeGenInitFail ==
    /\ pc = "start"
    /\ LET h == TemplateObjs(config.pipe)
           refs == TemplateRefs(config.pipe)
           e == InitError(config, mode, h, refs)
       IN /\ e # NoErr
          /\ err' = e
          /\ objs' = h
          /\ structure' = IF e.what \in {"chainer", "dataset_iterator"} THEN <<>> ELSE refs
          /\ trains' = IF e.what \in {"chainer", "dataset_iterator"}
                       THEN <<>> ELSE <<TrainConfig(config)>>
    /\ pc' = "failed"
    /\ UNCHANGED <<returned, config, mode, sample_num, test_mode, chainer_pipe, pipes,
                   enumerator, gen, length, produced, len_run>>

\* __init__ up to the first statement of get_len's drain
PipeGenInit ==
    /\ pc = "start"
    /\ LET h == TemplateObjs(config.pipe)
           refs == TemplateRefs(config.pipe)
           en == PipelineEnumeration(config, <<TrainConfig(config)>>, <<>>, refs)
       IN /\ InitError(config, mode, h, refs) = NoErr
          /\ objs' = h
          /\ structure' = refs
          /\ trains' = en.trains
          /\ pipes' = en.pipes
          /\ enumerator' = en.enumerator
    /\ gen' = NoGen
    /\ pc' = "get_len"
    /\ UNCHANGED <<returned, config, mode, sample_num, test_mode, err, chainer_pipe,
                   length, produced, len_run>>

\* ------------------------------------------------------ random search
\* a top-level item that is a dict with a key prefixed 'random_'
Searchable(c) ==
    \E i \in 1..Len(ParamKeys) :
        c[ParamKeys[i]].t = "dict" /\ StartsWithRandom(c[ParamKeys[i]].k)

\* the value the sampler seeded with 42 draws at its call-th call
SampleOf(call, values) == values[((call - 1) % Len(values)) + 1]

SampleItem(item, call) ==
    IF item.t = "dict" /\ StartsWithRandom(item.k)
    THEN Lit(SampleOf(call, item.vals)) ELSE item

\* ParamsSearch.sample_params(**component): a new dict, directives sampled
SampleParams(c, call) ==
    [c EXCEPT !.lr = SampleItem(c.lr, call), !.dim = SampleItem(c.dim, call)]

\* random_conf_gen in which a null stage is an axis without elements
RECURSIVE RandomLoopEmptyAxis(_, _, _, _, _, _)
RandomLoopEmptyAxis(h, comps, k, n, calls, new_pipes) ==
    IF k > Len(comps) THEN [heap |-> h, axes |-> new_pipes]
    ELSE IF comps[k] = NULL
         THEN RandomLoopEmptyAxis(h, comps, k + 1, n, calls, Append(new_pipes, <<>>))
    ELSE IF Searchable(h[comps[k]])
         THEN RandomLoopEmptyAxis(h \o [m \in 1..n |-> SampleParams(h[comps[k]], calls + m)],
                         comps, k + 1, n, calls + n,
                         Append(new_pipes, [m \in 1..n |-> Len(h) + m]))
    ELSE RandomLoopEmptyAxis(h, comps, k + 1, n, calls, Append(new_pipes, <<comps[k]>>))

\* the loop of random_conf_gen over the stages: new_pipes and the new heap
RECURSIVE RandomLoop(_, _, _, _, _, _)
RandomLoop(h, comps, k, n, calls, new_pipes) ==
    IF k > Len(comps) THEN [heap |-> h, axes |-> new_pipes]
    ELSE IF comps[k] = NULL
         THEN RandomLoop(h, comps, k + 1, n, calls, new_pipes)
    ELSE IF Searchable(h[comps[k]])
         THEN RandomLoop(h \o [m \in 1..n |-> SampleParams(h[comps[k]], calls + m)],
                         comps, k + 1, n, calls + n,
                         Append(new_pipes, [m \in 1..n |-> Len(h) + m]))
    ELSE RandomLoop(h, comps, k + 1, n, calls, Append(new_pipes, <<comps[k]>>))

\* random_conf_gen(pipe_components): the tuples it will yield, in order
RandomConfGen(h, comps, n) ==
    LET r == RandomLoop(h, comps, 1, n, 0, <<>>)
    IN [heap |-> r.heap, items |-> Product(r.axes)]

\* -------------------------------------------------------- grid search
\* the axis of one item without the last value of 'grid_search'
GridAxisDropLast(item, i, key) ==
    IF item.t = "dict" /\ item.k = "grid_search"
    THEN << [m \in 1..(Len(item.vals) - 1) |-> [value |-> item.vals[m], i |-> i, key |-> key]] >>
    ELSE <<>>

\* the axis of one item: one {value: [i, key]} per value of 'grid_search'
GridAxis(item, i, key) ==
    IF item.t = "dict" /\ item.k = "grid_search"
    THEN << [m \in 1..Len(item.vals) |-> [value |-> item.vals[m], i |-> i, key |-> key]] >>
    ELSE <<>>

\* list_of_variants: i is the 0-based position of the component
ListOfVariants(h, comps) ==
    Flatten([k \in 1..Len(comps) |->
        IF comps[k] = NULL THEN <<>>
        ELSE Flatten([q \in 1..Len(ParamKeys) |->
                GridAxis(h[comps[k]][ParamKeys[q]], k - 1, ParamKeys[q])])])

NonNullBefore(comps, k) == Cardinality({q \in 1..k : comps[q] # NULL})

\* deepcopy(pipe_components): new objects appended to the heap
DeepCopy(h, comps) ==
    [heap |-> h \o SelectSeq(Vals(h, comps), LAMBDA c : ~IsNone(c)),
     ids |-> [k \in 1..Len(comps) |->
                IF comps[k] = NULL THEN NULL ELSE Len(h) + NonNullBefore(comps, k)]]

\* search_conf[item[0]][item[1]] = value, for each value of the combination
RECURSIVE AssignLoop(_, _, _, _)
AssignLoop(h, ids, variant, k) ==
    IF k > Len(variant) THEN h
    ELSE AssignLoop([h EXCEPT ![ids[variant[k].i + 1]][variant[k].key] = Lit(variant[k].value)],
                    ids, variant, k + 1)

\* one turn of the loop of grid_conf_gen: the search_conf it yields
GridConf(h, comps, variant) ==
    LET c == DeepCopy(h, comps)
    IN [heap |-> AssignLoop(c.heap, c.ids, variant, 1), ids |-> c.ids]

\* ------------------------------------------------------ path rewriting
\* the path of a main component named after n, not n + 1
MainPathZeroBased(root, ds, n, file, test) ==
    IF ~test THEN Join(ExpandPath(root), <<ds, PipeSeg(n), file>>)
    ELSE Join(ExpandPath(root), <<Seg("tmp"), ds, PipeSeg(n), file>>)

\* the path of a main component without its pipeline directory
MainPathNoIndex(root, ds, n, file, test) ==
    IF ~test THEN Join(ExpandPath(root), <<ds, file>>)
    ELSE Join(ExpandPath(root), <<Seg("tmp"), ds, file>>)

\* the path a main component gets
MainPath(root, ds, n, file, test) ==
    IF ~test THEN Join(ExpandPath(root), <<ds, PipeSeg(n + 1), file>>)
    ELSE Join(ExpandPath(root), <<Seg("tmp"), ds, PipeSeg(n + 1), file>>)

\* the path any other component gets
OtherPath(root, ds, file, test) ==
    IF ~test THEN Join(ExpandPath(root), <<ds, file>>)
    ELSE Join(ExpandPath(root), <<Seg("tmp"), ds, file>>)

\* the body of the loop when the old path is kept whole, not its last segment
ChangeComponentWholePath(c, n, root, ds, test) ==
    LET pre == IF test THEN <<Seg("tmp"), ds>> ELSE <<ds>>
    IN IF c.main = TRUE
       THEN [c EXCEPT
               !.save_path = IF @ # NoPath
                             THEN Join(ExpandPath(root), pre \o <<PipeSeg(n + 1)>> \o @) ELSE @,
               !.load_path = IF @ # NoPath
                             THEN Join(ExpandPath(root), pre \o <<PipeSeg(n + 1)>> \o @) ELSE @]
       ELSE [c EXCEPT
               !.save_path = IF @ # NoPath THEN Join(ExpandPath(root), pre \o @) ELSE @]

\* the body of the loop of change_load_path
ChangeComponent(c, n, root, ds, test) ==
    IF c.main = TRUE
    THEN [c EXCEPT
            !.save_path = IF @ # NoPath THEN MainPath(root, ds, n, LastSeg(@), test) ELSE @,
            !.load_path = IF @ # NoPath THEN MainPath(root, ds, n, LastSeg(@), test) ELSE @]
    ELSE [c EXCEPT
            !.save_path = IF @ # NoPath THEN OtherPath(root, ds, LastSeg(@), test) ELSE @]

\* change_load_path: components are rewritten in place, in order; None has
\* no attribute 'get'
RECURSIVE ChangeLoadPath(_, _, _, _, _, _, _)
ChangeLoadPath(h, ids, k, n, root, ds, test) ==
    IF k > Len(ids) THEN [heap |-> h, raised |-> FALSE]
    ELSE IF ids[k] = NULL THEN [heap |-> h, raised |-> TRUE]
    ELSE ChangeLoadPath([h EXCEPT ![ids[k]] = ChangeComponent(@, n, root, ds, test)],
                        ids, k + 1, n, root, ds, test)

\* configurations one raw variant expands to
ExpansionCount(h, comps) ==
    IF mode = "random" THEN Len(RandomConfGen(h, comps, sample_num).items)
    ELSE Len(Product(ListOfVariants(h, comps)))

RECURSIVE SumSeq(_)
SumSeq(ns) == IF Len(ns) = 0 THEN 0 ELSE Head(ns) + SumSeq(Tail(ns))

\* the number of configurations the expansions of a template with stages pipe
\* amount to, for a template with readers and batches raw variants per pipe
LengthOf(pipe, readers, batches) ==
    LET h == TemplateObjs(pipe)
        raw == Product(TemplateRefs(pipe))
    IN readers * batches * SumSeq([v \in 1..Len(raw) |-> ExpansionCount(h, raw[v])])

\* ---------------------------------------------------------- the start
\* configurations a candidate gives rise to in a raw variant
Weight(c, md, n) ==
    IF IsNone(c) THEN 1
    ELSE IF md = "random" THEN (IF Searchable(c) THEN n ELSE 1)
    ELSE Prod([q \in 1..Len(ParamKeys) |->
            IF c[ParamKeys[q]].t = "dict" /\ c[ParamKeys[q]].k = "grid_search"
            THEN Len(c[ParamKeys[q]].vals) ELSE 1])

\* configurations a template gives rise to
Budget(c, md, n) ==
    Len(c.dataset_reader.paths) * TrainAxis(c.batch_size)
        * Prod([i \in 1..Len(c.pipe) |->
                 SumSeq([j \in 1..Len(c.pipe[i]) |-> Weight(c.pipe[i][j], md, n)])])

\* the templates: a template without 'chainer' has no pipe
Configs ==
    {c \in [has_chainer : BOOLEAN, iterator_is_dict : BOOLEAN,
            dataset_reader : ReaderOptions, batch_size : BatchOptions,
            pipe : Structures] :
        /\ RawCount(c) <= MaxConfigs
        /\ ~c.has_chainer => Len(c.pipe) = 0}

Modes == {"random", "grid", "bayes"}

Init ==
    /\ config \in Configs
    /\ mode \in Modes
    /\ sample_num \in (IF mode = "random" THEN 1..MaxSampleNum ELSE {1})
    /\ test_mode \in BOOLEAN
    /\ Budget(config, mode, sample_num) <= MaxConfigs
    /\ pc = "start"
    /\ err = NoErr
    /\ objs = <<>>
    /\ trains = <<>>
    /\ structure = <<>>
    /\ chainer_pipe = <<>>
    /\ pipes = <<>>
    /\ enumerator = NoEnum
    /\ gen = NoGen
    /\ length = -1
    /\ produced = <<>>
    /\ len_run = <<>>
    /\ returned = <<>>

\* -------------------------------------------------------- pipeline_gen
Running == pc \in {"get_len", "consuming"}

\* dr_config['data_path'].split('/')[-1]
DatasetName(variant) == LastSeg(config.dataset_reader.paths[variant[1]])

\* the for loop takes the next raw variant and starts its expansion
NextVariant ==
    /\ Running
    /\ gen.ei = Len(gen.inner)
    /\ enumerator.pos < Len(enumerator.items)
    /\ LET variant == enumerator.items[enumerator.pos + 1]
           pipe_var == SubSeq(variant, 3, Len(variant))
       IN IF mode = "random"
          THEN LET r == RandomConfGen(objs, pipe_var, sample_num)
               IN /\ objs' = r.heap
                  /\ gen' = [gen EXCEPT !.variant = variant, !.inner = r.items, !.ei = 0]
          ELSE /\ objs' = objs
               /\ gen' = [gen EXCEPT !.variant = variant,
                                     !.inner = Product(ListOfVariants(objs, pipe_var)),
                                     !.ei = 0]
    /\ enumerator' = [enumerator EXCEPT !.pos = @ + 1]
    /\ UNCHANGED <<returned, config, mode, sample_num, test_mode, pc, err, trains, structure,
                   chainer_pipe, pipes, length, produced, len_run>>

\* what the consumer holds after a yield: the references of new_config and
\* the values they had when it was produced
Yielded(h, variant, raw, ids) ==
    [k |-> gen.p + 1,
     vi |-> enumerator.pos,
     reader |-> config.dataset_reader.paths[variant[1]],
     train |-> variant[2],
     pipe |-> ids,
     raw |-> raw,
     snap_pipe |-> Vals(h, ids),
     snap_train |-> trains[variant[2]]]

\* lines 169-182
YieldRandom ==
    /\ Running
    /\ mode = "random"
    /\ gen.ei < Len(gen.inner)
    /\ LET ids == gen.inner[gen.ei + 1]
           r == ChangeLoadPath(objs, ids, 1, gen.p, SaveRoot,
                               DatasetName(gen.variant), test_mode)
       IN /\ ~r.raised
          /\ objs' = r.heap
          /\ chainer_pipe' = ids
          /\ produced' = Append(produced, Yielded(r.heap, gen.variant, Vals(objs, ids), ids))
    /\ gen' = [gen EXCEPT !.p = @ + 1, !.ei = @ + 1]
    /\ UNCHANGED <<returned, config, mode, sample_num, test_mode, pc, err, trains, structure,
                   pipes, enumerator, length, len_run>>

\* lines 184-197
YieldGrid ==
    /\ Running
    /\ mode # "random"
    /\ gen.ei < Len(gen.inner)
    /\ LET g == GridConf(objs, SubSeq(gen.variant, 3, Len(gen.variant)), gen.inner[gen.ei + 1])
           r == ChangeLoadPath(g.heap, g.ids, 1, gen.p, SaveRoot,
                               DatasetName(gen.variant), test_mode)
       IN /\ ~r.raised
          /\ objs' = r.heap
          /\ chainer_pipe' = g.ids
          /\ produced' = Append(produced, Yielded(r.heap, gen.variant, Vals(g.heap, g.ids), g.ids))
    /\ gen' = [gen EXCEPT !.p = @ + 1, !.ei = @ + 1]
    /\ UNCHANGED <<returned, config, mode, sample_num, test_mode, pc, err, trains, structure,
                   pipes, enumerator, length, len_run>>

\* change_load_path meets None: the exception leaves the generator and its caller
YieldRaises ==
    /\ Running
    /\ gen.ei < Len(gen.inner)
    /\ LET g == IF mode = "random"
                THEN [heap |-> objs, ids |-> gen.inner[gen.ei + 1]]
                ELSE GridConf(objs, SubSeq(gen.variant, 3, Len(gen.variant)),
                              gen.inner[gen.ei + 1])
           r == ChangeLoadPath(g.heap, g.ids, 1, gen.p, SaveRoot,
                               DatasetName(gen.variant), test_mode)
       IN /\ r.raised
          /\ objs' = r.heap
    /\ err' = AttributeError
    /\ pc' = "failed"
    /\ UNCHANGED <<returned, config, mode, sample_num, test_mode, trains, structure, chainer_pipe,
                   pipes, enumerator, gen, length, produced, len_run>>

Exhausted == gen.ei = Len(gen.inner) /\ enumerator.pos = Len(enumerator.items)

\* get_len after the drain (lines 113-115), then lines 86-87 of __init__
GetLenDone ==
    /\ pc = "get_len"
    /\ Exhausted
    /\ length' = Len(produced)
    /\ len_run' = produced
    /\ produced' = <<>>
    /\ LET en == PipelineEnumeration(config, trains, <<>>, structure)
       IN /\ trains' = en.trains
          /\ pipes' = en.pipes
          /\ enumerator' = en.enumerator
    /\ gen' = NoGen
    /\ pc' = "ready"
    /\ UNCHANGED <<returned, config, mode, sample_num, test_mode, err, objs, structure, chainer_pipe>>

\* the generator is not inside next(): it has not started, it waits at a
\* yield, or it has returned
Suspended ==
    \/ pc \in {"ready", "exhausted"}
    \/ pc = "consuming" /\ (gen.variant = <<>> \/ gen.ei > 0)

\* __call__ returns self.generator, the one generator object made at
\* construction, and the caller goes on to consume it
Call ==
    /\ Suspended
    /\ Len(returned) < MaxCalls
    /\ returned' = Append(returned, Len(produced))
    /\ pc' = "consuming"
    /\ UNCHANGED <<config, mode, sample_num, test_mode, err, objs, trains, structure,
                   chainer_pipe, pipes, enumerator, gen, length, produced, len_run>>

\* the consumer meets StopIteration
StopIteration ==
    /\ pc = "consuming"
    /\ Exhausted
    /\ pc' = "exhausted"
    /\ UNCHANGED <<returned, config, mode, sample_num, test_mode, err, objs, trains, structure,
                   chainer_pipe, pipes, enumerator, gen, length, produced, len_run>>

Next ==
    \/ PipeGenInitFail
    \/ PipeGenInit
    \/ NextVariant
    \/ YieldRandom
    \/ YieldGrid
    \/ YieldRaises
    \/ GetLenDone
    \/ Call
    \/ StopIteration

Spec == Init /\ [][Next]_vars

\* ======================================================== properties
Constructed == pc \in {"ready", "consuming", "exhausted"}

\* the template passes the four checks of construction
Defect ==
    \/ ~config.has_chainer
    \/ ~config.iterator_is_dict
    \/ mode \notin {"random", "grid"}
    \/ \E i \in 1..Len(config.pipe) : \E j \in 1..Len(config.pipe[i]) :
          ~IsNone(config.pipe[i][j]) /\ config.pipe[i][j].component_name = NoKey

HasDirective(c) ==
    \E key \in {"lr", "dim"} :
        c[key].t = "dict" /\ c[key].k \in {"random_range", "random_choice", "grid_search"}

NoDirectives ==
    \A i \in 1..Len(config.pipe) : \A j \in 1..Len(config.pipe[i]) :
        ~HasDirective(config.pipe[i][j])

HasNull(stage) == \E j \in 1..Len(stage) : IsNone(stage[j])
SomeNull == \E i \in 1..Len(config.pipe) : HasNull(config.pipe[i])

NumReaders == Len(config.dataset_reader.paths)
NumBatches == IF config.batch_size.is_list THEN Len(config.batch_size.vals) ELSE 1

\* the component of the template a produced component stems from
OrigOf(name) == CHOOSE c \in Range(Catalogue) : c.component_name = name

TemplateUntouched ==
    \A i \in 1..Len(TemplateObjs(config.pipe)) :
        /\ objs[i].save_path = TemplateObjs(config.pipe)[i].save_path
        /\ objs[i].load_path = TemplateObjs(config.pipe)[i].load_path

\* what produced[k] shows to its holder now: chainer is the one shared dict
LivePipe(k) == Vals(objs, chainer_pipe)
LiveTrain(k) == trains[produced[k].train]

\* ---------------------------------------------------------------- C1
\* C1: every configuration produced earlier still has the chainer.pipe, the
\* component paths and the train block it had when it was produced, and the
\* components of the template keep their original save_path/load_path.
C1_SiblingIsolation ==
    /\ \A k \in 1..Len(produced) :
          /\ LivePipe(k) = produced[k].snap_pipe
          /\ LiveTrain(k) = produced[k].snap_train
    /\ (pc \notin {"start", "failed"} => TemplateUntouched)

\* ---------------------------------------------------------------- C2
\* every stage has one candidate, and it is not null
SingleCandidates ==
    \A i \in 1..Len(config.pipe) :
        Len(config.pipe[i]) = 1 /\ ~IsNone(config.pipe[i][1])

\* C2: a list-valued batch_size [b1..bT] gives T train variants that are
\* pairwise different objects, the i-th with batch_size bi; with one reader,
\* batch_size [16, 32] and two single-candidate plain stages the two
\* configurations carry 16 and 32.
C2_BatchVariantsIndependent ==
    (config.batch_size.is_list /\ Len(pipes) >= 2) =>
        LET bss == pipes[2]
            bs == config.batch_size.vals
        IN /\ Len(bss) = Len(bs)
           /\ \A i \in 1..Len(bss) : \A j \in 1..Len(bss) : i # j => bss[i] # bss[j]
           /\ \A i \in 1..Len(bss) : trains[bss[i]].batch_size = Scalar(bs[i])
           /\ (NumReaders = 1 /\ NoDirectives /\ SingleCandidates) =>
                 \A k \in 1..Len(produced) :
                    produced[k].snap_train.batch_size = Scalar(bs[k])

\* ---------------------------------------------------------------- C3
NullOnly(stage) == \A j \in 1..Len(stage) : IsNone(stage[j])

WithoutNullOnly(pipe) == SelectSeq(pipe, LAMBDA stage : ~NullOnly(stage))

NullStageTemplate ==
    /\ ~Defect
    /\ \E i \in 1..Len(config.pipe) : NullOnly(config.pipe[i])
    /\ \A i \in 1..Len(config.pipe) : NullOnly(config.pipe[i]) \/ ~HasNull(config.pipe[i])

\* C3: in either mode a template with a stage whose only candidate is null is
\* constructed without failure, its length is that of the template without
\* the stage, and no produced pipe has an entry for the null stage.
C3_NullStageDropped ==
    NullStageTemplate =>
        /\ pc # "failed"
        /\ Constructed => length = LengthOf(WithoutNullOnly(config.pipe), NumReaders, NumBatches)
        /\ \A k \in 1..Len(produced) :
              /\ Len(produced[k].pipe) = Len(WithoutNullOnly(config.pipe))
              /\ \A i \in 1..Len(produced[k].pipe) : produced[k].pipe[i] # NULL

\* ---------------------------------------------------------------- C4
NonNullCount(stage) == Cardinality({j \in 1..Len(stage) : ~IsNone(stage[j])})

ExpectedMainPath(k, ds, file) ==
    <<"/abs">> \o SaveRoot \o (IF test_mode THEN <<Seg("tmp")>> ELSE <<>>)
        \o <<ds, "pipe_" \o ToString(k), file>>

ExpectedMain(was, k, ds) ==
    IF was = NoPath THEN NoPath ELSE ExpectedMainPath(k, ds, was[Len(was)])

IndexedPaths(run) ==
    \A k \in 1..Len(run) :
        /\ run[k].k = k
        /\ \A i \in 1..Len(run[k].snap_pipe) :
              LET c == run[k].snap_pipe[i]
                  o == OrigOf(c.component_name)
                  ds == run[k].reader[Len(run[k].reader)]
              IN c.main =>
                    /\ c.save_path = ExpectedMain(o.save_path, k, ds)
                    /\ c.load_path = ExpectedMain(o.load_path, k, ds)

\* C5: the k-th configuration of a run, counted across raw variants and
\* expansions, is produced with the paths of its main component equal to
\* {save_root}/[tmp/]{dataset_name}/pipe_{k}/{original last segment}.
C5_RunningIndex == IndexedPaths(produced) /\ IndexedPaths(len_run)

HasMainSave(entry) ==
    \E i \in 1..Len(entry.snap_pipe) :
        entry.snap_pipe[i].main /\ entry.snap_pipe[i].save_path # NoPath

C5_Witness ==
    /\ test_mode
    /\ Len(produced) >= 4
    /\ produced[1].vi = produced[2].vi
    /\ produced[3].vi # produced[2].vi
    /\ HasMainSave(produced[4])
    /\ \E i \in 1..Len(produced[4].snap_pipe) :
          produced[4].snap_pipe[i].load_path # NoPath /\ produced[4].snap_pipe[i].main

\* ---------------------------------------------------------------- C6
SavePathsOf(entry, mainOnly) ==
    {entry.snap_pipe[i].save_path : i \in {j \in 1..Len(entry.snap_pipe) :
        /\ entry.snap_pipe[j].save_path # NoPath
        /\ (mainOnly => entry.snap_pipe[j].main)}}

Isolated(run, mainOnly) ==
    \A j \in 1..Len(run) : \A k \in 1..Len(run) :
        j # k => SavePathsOf(run[j], mainOnly) \cap SavePathsOf(run[k], mainOnly) = {}

\* C6 as stated: no save_path written into a component of one configuration
\* equals one written into a component of another configuration of the run,
\* main or not.
C6_AllSavePathsIsolated == Isolated(produced, FALSE)

\* C6 amended: the save_path written into a main component of one
\* configuration differs from that written into a main component of any
\* other configuration of the run.
C6_MainSavePathsIsolated == Isolated(produced, TRUE) /\ Isolated(len_run, TRUE)

C6_Witness ==
    /\ Len(produced) >= 2
    /\ HasMainSave(produced[1])
    /\ HasMainSave(produced[2])
    /\ produced[1].reader = produced[2].reader
    /\ SavePathsOf(produced[1], FALSE) \cap SavePathsOf(produced[2], FALSE) # {}

\* ---------------------------------------------------------------- C7
SameConfig(a, b) ==
    /\ a.k = b.k
    /\ a.reader = b.reader
    /\ a.snap_pipe = b.snap_pipe
    /\ a.snap_train = b.snap_train

\* C7: the sequence the first __call__ returns has len(generator) elements,
\* and they are, in order, the configurations of the throwaway run of get_len.
C7_CountConsumeAgreement ==
    /\ pc \in {"consuming", "exhausted"} =>
          /\ Len(produced) <= Len(len_run)
          /\ \A k \in 1..Len(produced) : SameConfig(produced[k], len_run[k])
    /\ pc = "exhausted" => Len(produced) = length

C7_Witness ==
    /\ pc = "exhausted"
    /\ mode = "random"
    /\ length >= 3
    /\ \E k \in 1..Len(produced) : \E i \in 1..Len(produced[k].pipe) :
          produced[k].pipe[i] <= Len(TemplateObjs(config.pipe))
    /\ \E k \in 1..Len(produced) : \E i \in 1..Len(produced[k].pipe) :
          produced[k].pipe[i] > Len(TemplateObjs(config.pipe))

\* ---------------------------------------------------------------- C8
\* the raw variant at hand, as values of the template
InputComps == SubSeq(gen.variant, 3, Len(gen.variant))
InputVals ==
    LET t == TemplateObjs(config.pipe)
        comps == InputComps
    IN [i \in 1..Len(comps) |-> IF comps[i] = NULL THEN NoneComp ELSE t[comps[i]]]

\* the (stage, key) locations flagged with 'grid_search'
GridLocationsOf(vals) ==
    {l \in (1..Len(vals)) \X {"lr", "dim"} :
        vals[l[1]][l[2]].t = "dict" /\ vals[l[1]][l[2]].k = "grid_search"}

GridChoicesOf(vals, locs) ==
    {f \in [locs -> UNION {Range(vals[l[1]][l[2]].vals) : l \in locs}] :
        \A l \in locs : f[l] \in Range(vals[l[1]][l[2]].vals)}

\* the yields of the raw variant at hand
OfVariant == SelectSeq(produced, LAMBDA e : e.vi = enumerator.pos)

GridChoiceOf(entry, locs) == [l \in locs |-> entry.raw[l[1]][l[2]].v]

RECURSIVE SetProd(_, _)
SetProd(S, f) ==
    IF S = {} THEN 1
    ELSE LET x == CHOOSE y \in S : TRUE IN f[x] * SetProd(S \ {x}, f)

GridSizeOf(vals, locs) == SetProd(locs, [l \in locs |-> Len(vals[l[1]][l[2]].vals)])

\* C8: grid_conf_gen yields s1 x ... x sk lists, one per combination, with the
\* chosen literal at every flagged location and every other parameter as in
\* the input; exactly the input when nothing is flagged; the input list is
\* left as it was.
C8_GridExpansion ==
    (mode = "grid" /\ Len(gen.variant) > 0) =>
        LET comps == InputComps
            vals == InputVals
            locs == GridLocationsOf(vals)
            size == GridSizeOf(vals, locs)
            ofv == OfVariant
        IN /\ Len(gen.inner) = size
           /\ \A e \in 1..Len(ofv) :
                 /\ Len(ofv[e].raw) = Len(vals)
                 /\ \A i \in 1..Len(vals) : \A key \in DOMAIN vals[i] :
                       IF <<i, key>> \in locs
                       THEN /\ ofv[e].raw[i][key].t = "lit"
                            /\ ofv[e].raw[i][key].v \in Range(vals[i][key].vals)
                       ELSE ofv[e].raw[i][key] = vals[i][key]
           /\ \A d \in 1..Len(ofv) : \A e \in 1..Len(ofv) :
                 d # e => GridChoiceOf(ofv[d], locs) # GridChoiceOf(ofv[e], locs)
           /\ (gen.ei = Len(gen.inner) /\ pc # "failed") =>
                 /\ Len(ofv) = size
                 /\ {GridChoiceOf(ofv[e], locs) : e \in 1..Len(ofv)} = GridChoicesOf(vals, locs)
           /\ \A i \in 1..Len(comps) : comps[i] # NULL => objs[comps[i]] = vals[i]

C8_Witness ==
    /\ mode = "grid"
    /\ Len(gen.variant) > 0
    /\ Cardinality(GridLocationsOf(InputVals)) = 2
    /\ gen.ei = Len(gen.inner)
    /\ Len(OfVariant) = 4

C8_WitnessNoAxis ==
    /\ mode = "grid"
    /\ Len(gen.variant) > 0
    /\ GridLocationsOf(InputVals) = {}
    /\ Len(OfVariant) = 1

\* ---------------------------------------------------------------- C9
IsSearchable(c) ==
    \E key \in DOMAIN c :
        /\ key \in {"lr", "dim"}
        /\ c[key].t = "dict"
        /\ c[key].k \in {"random_range", "random_choice"}

NonNullStages == {i \in 1..Len(InputComps) : InputComps[i] # NULL}
SearchableStages == LET vals == InputVals IN {i \in NonNullStages : IsSearchable(vals[i])}

Concrete(c) == ~IsSearchable(c)

\* C9: in 'random' mode a raw variant with k searchable non-null stages yields
\* N^k configurations, each with one concrete component per non-null stage,
\* the non-searchable components being those of the input.
C9_RandomExpansion ==
    (mode = "random" /\ Len(gen.variant) > 0) =>
        LET comps == InputComps
            vals == InputVals
            stages == NonNullStages
            searchable == {i \in stages : IsSearchable(vals[i])}
            ofv == OfVariant
            slot == [i \in stages |-> Cardinality({j \in stages : j <= i})]
            count == Pow(sample_num, Cardinality(searchable))
        IN /\ Len(gen.inner) = count
           /\ gen.ei = Len(gen.inner) => Len(ofv) = count
           /\ \A e \in 1..Len(ofv) :
                 /\ Len(ofv[e].pipe) = Cardinality(stages)
                 /\ \A i \in stages :
                       /\ Concrete(ofv[e].raw[slot[i]])
                       /\ ofv[e].raw[slot[i]].component_name = vals[i].component_name
                       /\ i \notin searchable => ofv[e].pipe[slot[i]] = comps[i]

C9_Witness ==
    /\ mode = "random"
    /\ sample_num = MaxSampleNum
    /\ Len(gen.variant) > 0
    /\ Cardinality(SearchableStages) = 2
    /\ gen.ei = Len(gen.inner)
    /\ Len(OfVariant) = MaxSampleNum * MaxSampleNum

C9_WitnessNull ==
    /\ mode = "random"
    /\ Len(gen.variant) > 0
    /\ Cardinality(SearchableStages) = 1
    /\ Cardinality(NonNullStages) < Len(InputComps)
    /\ gen.ei = Len(gen.inner)
    /\ Len(OfVariant) = sample_num

\* --------------------------------------------------------------- C10
NothingDone ==
    /\ pipes = <<>>
    /\ enumerator = NoEnum
    /\ produced = <<>>
    /\ len_run = <<>>
    /\ length = -1
    /\ objs = TemplateObjs(config.pipe)

Lacks(i, j) ==
    /\ i \in 1..Len(config.pipe)
    /\ j \in 1..Len(config.pipe[i])
    /\ ~IsNone(config.pipe[i][j])
    /\ config.pipe[i][j].component_name = NoKey

\* C10: construction fails with ConfigError, nothing enumerated and no path
\* rewritten, when the template has no 'chainer', 'dataset_iterator' is a
\* list, the mode is unknown or a non-null candidate lacks 'component_name'
\* (reported by its 1-based stage and candidate positions); otherwise it
\* raises no ConfigError.
C10_ConstructionValidation ==
    pc # "start" =>
        /\ Defect => (pc = "failed" /\ err.kind = "ConfigError" /\ NothingDone)
        /\ ~Defect => err.kind # "ConfigError"
        /\ err.what = "component_name" =>
              /\ Lacks(err.stage, err.cand)
              /\ \A i \in 1..Len(config.pipe) : \A j \in 1..Len(config.pipe[i]) :
                    Lacks(i, j) => (err.stage < i \/ (err.stage = i /\ err.cand <= j))
        /\ (config.has_chainer /\ config.iterator_is_dict /\ mode \in {"random", "grid"}
              /\ err.kind = "ConfigError") => err.what = "component_name"

C10_Witness ==
    /\ pc = "failed"
    /\ err.what = "component_name"
    /\ err.stage = 2
    /\ err.cand = 2


\* --------------------------------------------------------------- C11
\* what the c-th __call__ has handed to its caller so far: the
\* configurations self.generator yielded since it was returned
SequenceOf(c) == SubSeq(produced, returned[c] + 1, Len(produced))

\* C11: the sequence every __call__ returns is the sequence of a fresh run,
\* whatever was called or consumed before: its elements are, in order, those
\* of the throwaway run of get_len, and consumed to its end it has
\* len(generator) of them.
C11_CallStateless ==
    pc \in {"consuming", "exhausted"} =>
        \A c \in 1..Len(returned) :
            LET s == SequenceOf(c)
            IN /\ Len(s) <= Len(len_run)
               /\ \A k \in 1..Len(s) : SameConfig(s[k], len_run[k])
               /\ pc = "exhausted" => Len(s) = length

\* what the code does instead: a later __call__ continues the one generator
\* where its earlier consumers left it
C11_SharedGenerator ==
    pc \in {"consuming", "exhausted"} =>
        \A c \in 1..Len(returned) :
            /\ returned[c] <= Len(produced)
            /\ \A k \in 1..Len(SequenceOf(c)) :
                  SameConfig(SequenceOf(c)[k], len_run[returned[c] + k])
            /\ pc = "exhausted" => Len(SequenceOf(c)) = length - returned[c]

\* a second __call__ made after the first sequence was consumed to its end
C11_SecondCallAfterExhaustion ==
    /\ pc = "exhausted"
    /\ Len(returned) = 2
    /\ returned[2] = length
    /\ length >= 2

====
